---- MODULE Spec2Model ----
(***************************************************************************)
(* Model of fx's serving core (src/fx/src/serve.rs): the ServerContext     *)
(* with its connection mutex, the scheduled refresh jobs of the blog       *)
(* cache, and the request handlers of the publish workflow.                *)
(*                                                                         *)
(* A request task is an async handler: it advances from one suspension     *)
(* point (.await) to the next; the steps between two suspension points are *)
(* kept as separate actions where a guard is taken, used and dropped.      *)
(***************************************************************************)
EXTENDS Integers, Sequences, FiniteSets, TLC

\* ---------------------------------------------------------------- bounds
NumTasks == 2     \* request tasks served (each serves one request)
MaxId == 2        \* post ids range over 1..MaxId
MaxTime == 1      \* readings of the clock range over 0..MaxTime
MaxFirings == 2   \* firings of the recurring job
MaxPosts == 21    \* posts stored when the listing is paginated
MaxPage == 3      \* page numbers of a listing request range over 0..MaxPage

Tasks == 1..NumTasks
Ids == 1..MaxId
JobRuns == 0..MaxFirings   \* 0 is the one-shot job, 1.. are cron firings

\* ---------------------------------------------------------------- strings
\* A string is a sequence of one-character strings.
White == {" ", "\n", "\t"}

RECURSIVE trim_start(_)
\* str::trim, leading part: drop leading whitespace.
trim_start(s) ==
    IF s = <<>> THEN <<>>
    ELSE IF Head(s) \in White THEN trim_start(Tail(s)) ELSE s

RECURSIVE trim_end(_)
\* str::trim, trailing part: drop trailing whitespace.
trim_end(s) ==
    IF s = <<>> THEN <<>>
    ELSE IF s[Len(s)] \in White THEN trim_end(SubSeq(s, 1, Len(s) - 1)) ELSE s

\* str::trim as used on line 536.
trim(s) == trim_end(trim_start(s))

\* A variant that only strips whitespace at the end.
trim_newline_suffix_EndOnly(s) == trim_end(s) \o <<"\n">>

\* format!("{}\n", s.trim())
trim_newline_suffix(s) == trim(s) \o <<"\n">>

Hi == <<"#", " ", "H", "i", "\n">>
Padded == <<" ", "a", " ", "b", "\n", "\n">>
Blank == <<" ", "\n">>
\* Values of the content field of a submitted form.
FormContents == {Hi, Padded, Blank}

\* A request body: whether the raw text contains "publish=Publish", and the
\* outcome of reading and decoding it (ok = FALSE: the body cannot be read,
\* is not UTF-8, or has no content field).
Bodies == [marker : BOOLEAN, ok : {TRUE}, content : FormContents]
            \cup [marker : BOOLEAN, ok : {FALSE}, content : {<<>>}]

\* ---------------------------------------------------------------- posts
NoPost == [id |-> -1, created |-> 0, updated |-> 0, content |-> <<>>]

Post(id, created, updated, content) ==
    [id |-> id, created |-> created, updated |-> updated, content |-> content]

\* Post::get: Ok with the stored row when there is one, NotFound otherwise.
Post_has(ps, id) == id \in DOMAIN ps

\* Post::insert: a new row under a fresh id.
Post_insert(ps, nid, created, updated, content) ==
    [i \in DOMAIN ps \cup {nid} |->
        IF i = nid THEN Post(nid, created, updated, content) ELSE ps[i]]

\* Post::update: the row with the post's id is replaced, if there is one.
Post_update(ps, post) ==
    [i \in DOMAIN ps |-> IF i = post.id THEN post ELSE ps[i]]

\* Post::delete: the row with that id is removed, if there is one.
Post_delete(ps, id) == [i \in DOMAIN ps \ {id} |-> ps[i]]

EmptyStore == [i \in {} |-> NoPost]
OneStore == [i \in {1} |-> Post(1, 0, 0, <<"a", " ", "b", "\n">>)]
\* Stores the server may start with, each with the next free id.
InitStores == {<<EmptyStore, 1>>, <<OneStore, 2>>}

\* A store of n posts with ids 1..n, as left by n publishes.
ManyStore(n) == [i \in 1..n |-> Post(i, 0, 0, <<"p", "\n">>)]

RECURSIVE Post_list_from(_, _)
\* The rows of ps with an id of at most k, the highest id first.
Post_list_from(ps, k) ==
    IF k = 0 THEN <<>>
    ELSE IF k \in DOMAIN ps THEN <<ps[k]>> \o Post_list_from(ps, k - 1)
    ELSE Post_list_from(ps, k - 1)

\* Post::list: the stored posts as an ordered sequence.
Post_list(ps) ==
    Post_list_from(ps, IF DOMAIN ps = {} THEN 0
                       ELSE CHOOSE m \in DOMAIN ps : \A i \in DOMAIN ps : i <= m)

\* ---------------------------------------------------------------- listing
\* list_posts, line 178.
results_per_page == 10

Min(a, b) == IF a < b THEN a ELSE b

\* list_posts, lines 178-183: the window of the page. page is a usize: for
\* page = 0 the subtraction overflows, which panics where overflow checks are
\* on and otherwise wraps start to 2^64 - 10 and end to 0, so that the slice
\* panics; posts[start..end] panics whenever start > end.
list_posts_window(all, page) ==
    LET start == (page - 1) * results_per_page
        end0 == start + results_per_page
        has_next == end0 < Len(all)
        end == Min(end0, Len(all))
    IN  IF page = 0 \/ start > end
        THEN [panic |-> TRUE, has_next |-> FALSE, posts |-> <<>>]
        ELSE [panic |-> FALSE, has_next |-> has_next,
              posts |-> SubSeq(all, start + 1, end)]

\* ---------------------------------------------------------------- state
VARIABLES
    args,         \* ServeArgs: [password: set or not, production]
    mainpc,       \* position of run()
    sched,        \* the JobScheduler: which jobs are registered, started
    connHolders,  \* tasks holding the MutexGuard of ctx.conn
    cacheHolders, \* job runs holding the guard of blog_cache
    ctxHolders,   \* job runs holding the guard of the scheduler's ctx
    cache,        \* BlogCache: the content of its two feeds
    lastRefresh,  \* content written by the most recently completed refresh
    jobpc,        \* position of each job run
    posts,        \* the posts table: id -> Post
    nextId,       \* the id the next insert gets
    clock,        \* the latest reading of Utc::now()
    pc,           \* position of each request task
    req,          \* the request a task serves
    loc,          \* the handler's local variables
    resp,         \* the response a task returned
    writes,       \* number of storage writes that succeeded
    backups       \* number of invocations of trigger_github_backup

vars == <<args, mainpc, sched, connHolders, cacheHolders, ctxHolders, cache,
          lastRefresh, jobpc, posts, nextId, clock, pc, req, loc, resp,
          writes, backups>>

srvVars == <<args, mainpc, sched>>
jobVars == <<cacheHolders, ctxHolders, cache, lastRefresh, jobpc>>
dbVars == <<posts, nextId>>
reqVars == <<pc, req, loc, resp>>
cntVars == <<writes, backups>>

\* ---------------------------------------------------------------- helpers
\* Cookie jars a request may carry: none, the signed session cookie of the
\* configured administrator, or anything else.
Jars == {"none", "session", "forged"}

\* fx_auth::is_logged_in: the jar holds the administrator's session cookie.
fx_auth_is_logged_in(jar) == jar = "session"

\* A variant that skips the check of the configured password.
is_logged_in_NoPasswordCheck(a, jar) == fx_auth_is_logged_in(jar)

\* is_logged_in: false when no password is configured.
is_logged_in(a, jar) ==
    IF ~a.password THEN FALSE ELSE fx_auth_is_logged_in(jar)

\* html::wrap_post_content: the rendering shows the post's id and content.
wrap_post_content(post) == [id |-> post.id, content |-> post.content]

NoHtml == [id |-> -1, content |-> <<>>]

NoResp == [status |-> 0, hsts |-> FALSE, location |-> <<>>, page |-> "",
           html |-> NoHtml]

\* response(): status, headers and body, plus the HSTS header in production.
response(status, location, page, html) ==
    [status |-> status, hsts |-> args.production, location |-> location,
     page |-> page, html |-> html]

\* A variant that answers with status 200 instead of the redirect.
see_other_Status200(url) == response(200, url, "empty", NoHtml)

\* see_other(): a 303 with a Location header, built by response().
see_other(url) == response(303, url, "empty", NoHtml)

\* axum's Redirect::to: a 303 that does not pass through response().
Redirect_to(url) ==
    [status |-> 303, hsts |-> FALSE, location |-> url, page |-> "empty",
     html |-> NoHtml]

NoReq == [kind |-> "none", id |-> 0, cookie |-> FALSE, bodyRead |-> FALSE,
          marker |-> FALSE, content |-> <<>>, created0 |-> -1]
NoLoc == [publish |-> FALSE, post |-> NoPost, html |-> NoHtml]

\* A variant of the lock that does not wait for the holder.
conn_lock_NoWait(t) == connHolders' = connHolders \cup {t}

\* ServerContext::conn: self.conn.lock().await completes when the mutex is
\* free; every clone of the context locks the same mutex.
conn_lock(t) == connHolders = {} /\ connHolders' = {t}

\* A variant in which the guard is kept after the statement.
conn_unlock_Never(t) == connHolders' = connHolders

\* The MutexGuard is dropped at the end of the statement that took it.
conn_unlock(t) == connHolders' = connHolders \ {t}

\* ---------------------------------------------------------------- startup
Init ==
    /\ args \in [password : BOOLEAN, production : BOOLEAN]
    /\ mainpc = "new_scheduler"
    /\ sched = [oneshot |-> FALSE, cron |-> FALSE, started |-> FALSE]
    /\ connHolders = {}
    /\ cacheHolders = {}
    /\ ctxHolders = {}
    /\ cache = <<0, 0>>
    /\ lastRefresh = 0
    /\ jobpc = [j \in JobRuns |-> "idle"]
    /\ \E st \in InitStores : posts = st[1] /\ nextId = st[2]
    /\ clock = 0
    /\ pc = [t \in Tasks |-> "idle"]
    /\ req = [t \in Tasks |-> NoReq]
    /\ loc = [t \in Tasks |-> NoLoc]
    /\ resp = [t \in Tasks |-> NoResp]
    /\ writes = 0
    /\ backups = 0

\* schedule_jobs: JobScheduler::new().await, an error returns early.
schedule_jobs_new ==
    /\ mainpc = "new_scheduler"
    /\ \E ok \in BOOLEAN : mainpc' = IF ok THEN "add_oneshot" ELSE "bind"
    /\ UNCHANGED <<args, sched, connHolders, jobVars, dbVars, clock, reqVars,
                   cntVars>>

\* schedule_jobs: the one-shot job is added, an error is only logged.
schedule_jobs_add_oneshot ==
    /\ mainpc = "add_oneshot"
    /\ \E ok \in BOOLEAN : sched' = [sched EXCEPT !.oneshot = ok]
    /\ mainpc' = "add_cron"
    /\ UNCHANGED <<args, connHolders, jobVars, dbVars, clock, reqVars, cntVars>>

\* schedule_jobs: the recurring job is added, an error is only logged.
schedule_jobs_add_cron ==
    /\ mainpc = "add_cron"
    /\ \E ok \in BOOLEAN : sched' = [sched EXCEPT !.cron = ok]
    /\ mainpc' = "start"
    /\ UNCHANGED <<args, connHolders, jobVars, dbVars, clock, reqVars, cntVars>>

\* schedule_jobs: scheduler.start().await.unwrap() panics on an error.
schedule_jobs_start ==
    /\ mainpc = "start"
    /\ \E ok \in BOOLEAN :
        IF ok THEN /\ sched' = [sched EXCEPT !.started = TRUE]
                   /\ mainpc' = "bind"
              ELSE /\ mainpc' = "panicked"
                   /\ UNCHANGED sched
    /\ UNCHANGED <<args, connHolders, jobVars, dbVars, clock, reqVars, cntVars>>

\* run: the listener is bound and axum::serve starts; bind's unwrap panics.
run_serve ==
    /\ mainpc = "bind"
    /\ \E ok \in BOOLEAN : mainpc' = IF ok THEN "serving" ELSE "panicked"
    /\ UNCHANGED <<args, sched, connHolders, jobVars, dbVars, clock, reqVars,
                   cntVars>>

\* ---------------------------------------------------------------- jobs
\* A panic of run() ends the process and with it the runtime's tasks.
Alive == mainpc # "panicked"

\* A variant in which the one-shot job is only run at a tick of the cron job.
job_fire_OneShotOnTick(j) ==
    /\ Alive
    /\ sched.started
    /\ IF j = 0 THEN sched.oneshot /\ \E k \in JobRuns \ {0} : jobpc[k] # "idle"
                ELSE sched.cron
    /\ jobpc[j] = "idle"
    /\ jobpc' = [jobpc EXCEPT ![j] = "lock_cache"]
    /\ UNCHANGED <<srvVars, connHolders, cacheHolders, ctxHolders, cache,
                   lastRefresh, dbVars, clock, reqVars, cntVars>>

\* The scheduler fires a registered job: the one-shot job at once, the
\* recurring job on a tick; each firing runs the task closure.
job_fire(j) ==
    /\ Alive
    /\ sched.started
    /\ IF j = 0 THEN sched.oneshot ELSE sched.cron
    /\ jobpc[j] = "idle"
    /\ jobpc' = [jobpc EXCEPT ![j] = "lock_cache"]
    /\ UNCHANGED <<srvVars, connHolders, cacheHolders, ctxHolders, cache,
                   lastRefresh, dbVars, clock, reqVars, cntVars>>

\* A variant of the cache lock that does not wait for the holder.
job_lock_cache_NoWait(j) ==
    /\ Alive
    /\ jobpc[j] = "lock_cache"
    /\ cacheHolders' = cacheHolders \cup {j}
    /\ jobpc' = [jobpc EXCEPT ![j] = "lock_ctx"]
    /\ UNCHANGED <<srvVars, connHolders, ctxHolders, cache, lastRefresh,
                   dbVars, clock, reqVars, cntVars>>

\* task: blog_cache.lock().await
job_lock_cache(j) ==
    /\ Alive
    /\ jobpc[j] = "lock_cache"
    /\ cacheHolders = {}
    /\ cacheHolders' = {j}
    /\ jobpc' = [jobpc EXCEPT ![j] = "lock_ctx"]
    /\ UNCHANGED <<srvVars, connHolders, ctxHolders, cache, lastRefresh,
                   dbVars, clock, reqVars, cntVars>>

\* task: ctx.lock().await
job_lock_ctx(j) ==
    /\ Alive
    /\ jobpc[j] = "lock_ctx"
    /\ ctxHolders = {}
    /\ ctxHolders' = {j}
    /\ jobpc' = [jobpc EXCEPT ![j] = "update"]
    /\ UNCHANGED <<srvVars, connHolders, cacheHolders, cache, lastRefresh,
                   dbVars, clock, reqVars, cntVars>>

\* The content a job run fetches from the feeds.
Fetched(j) == j + 1

\* BlogCache::update stores the fetched content of one feed.
BlogCache_update_feed(c, k, v) == [c EXCEPT ![k] = v]

\* task: blog_cache.update(&ctx) starts under both guards and overwrites the
\* first feed.
job_update_begin(j) ==
    /\ Alive
    /\ jobpc[j] = "update"
    /\ cache' = BlogCache_update_feed(cache, 1, Fetched(j))
    /\ jobpc' = [jobpc EXCEPT ![j] = "updating"]
    /\ UNCHANGED <<srvVars, connHolders, cacheHolders, ctxHolders, lastRefresh,
                   dbVars, clock, reqVars, cntVars>>

\* task: blog_cache.update(&ctx) overwrites the second feed and returns; the
\* refresh is complete and both guards are dropped at the end of the block.
job_update_end(j) ==
    /\ Alive
    /\ jobpc[j] = "updating"
    /\ cache' = BlogCache_update_feed(cache, 2, Fetched(j))
    /\ lastRefresh' = Fetched(j)
    /\ cacheHolders' = cacheHolders \ {j}
    /\ ctxHolders' = ctxHolders \ {j}
    /\ jobpc' = [jobpc EXCEPT ![j] = "done"]
    /\ UNCHANGED <<srvVars, connHolders, dbVars, clock, reqVars, cntVars>>

\* ---------------------------------------------------------------- requests
\* The state in which axum::serve starts to accept requests.
ServeInit ==
    /\ args \in [password : BOOLEAN, production : BOOLEAN]
    /\ mainpc = "serving"
    /\ sched = [oneshot |-> TRUE, cron |-> TRUE, started |-> TRUE]
    /\ connHolders = {}
    /\ cacheHolders = {}
    /\ ctxHolders = {}
    /\ cache = <<0, 0>>
    /\ lastRefresh = 0
    /\ jobpc = [j \in JobRuns |-> "idle"]
    /\ \E st \in InitStores : posts = st[1] /\ nextId = st[2]
    /\ clock = 0
    /\ pc = [t \in Tasks |-> "idle"]
    /\ req = [t \in Tasks |-> NoReq]
    /\ loc = [t \in Tasks |-> NoLoc]
    /\ resp = [t \in Tasks |-> NoResp]
    /\ writes = 0
    /\ backups = 0

\* The handler moves on to its next position.
Goto(t, p) == pc' = [pc EXCEPT ![t] = p]

\* The handler returns its response; its locals are dropped.
Respond(t, r) ==
    /\ pc' = [pc EXCEPT ![t] = "done"]
    /\ resp' = [resp EXCEPT ![t] = r]
    /\ loc' = [loc EXCEPT ![t] = NoLoc]

\* The handler panics: the task ends without a response, locals are dropped.
Panic(t) ==
    /\ pc' = [pc EXCEPT ![t] = "panicked"]
    /\ loc' = [loc EXCEPT ![t] = NoLoc]

\* axum calls a handler for a request once the server is serving.
Accepts(t) == mainpc = "serving" /\ pc[t] = "idle"

\* The request a task serves: the route, the id of the path, whether its jar
\* holds the cookie fx_auth accepts, and, once the body is read, whether the
\* raw body holds the publish marker and the content field it carries.
\* created0 is the created time of the post with that id when the request
\* arrived (-1: no such post).
Request(kind, id, jar) ==
    [kind |-> kind, id |-> id, cookie |-> (jar = "session"),
     bodyRead |-> FALSE, marker |-> FALSE, content |-> <<>>,
     created0 |-> IF kind = "post_edit" /\ id \in DOMAIN posts
                  THEN posts[id].created ELSE -1]

\* not_found: the page is rendered and returned with status 404.
not_found(t) ==
    /\ pc[t] = "not_found"
    /\ Respond(t, response(404, <<>>, "not_found", NoHtml))
    /\ UNCHANGED <<srvVars, connHolders, jobVars, dbVars, clock, req, cntVars>>

\* ------------------------------------------------------------ post_add
\* post_add: the session check, before the body is read.
post_add_start(t) ==
    /\ Accepts(t)
    /\ \E jar \in Jars :
        LET auth == is_logged_in(args, jar) IN
        /\ req' = [req EXCEPT ![t] = Request("post_add", 0, jar)]
        /\ Goto(t, IF auth THEN "add_body" ELSE "not_found")
    /\ UNCHANGED <<srvVars, connHolders, jobVars, dbVars, clock, loc, resp,
                   cntVars>>

\* A variant of the preview that behaves like a publish.
post_add_is_publish_Always(marker) == TRUE

\* post_add: publish is the presence of "publish=Publish" in the raw body.
post_add_is_publish(marker) == marker

\* post_add: the body is collected and decoded (each unwrap panics on a
\* failure). A publish reads the clock once and normalizes the content; a
\* preview wraps the raw content into an id-0 Post and renders it.
post_add_body(t) ==
    /\ pc[t] = "add_body"
    /\ \E b \in Bodies :
        /\ req' = [req EXCEPT ![t].bodyRead = TRUE, ![t].marker = b.marker,
                              ![t].content = b.content]
        /\ IF ~b.ok
           THEN Panic(t) /\ UNCHANGED clock
           ELSE IF post_add_is_publish(b.marker)
           THEN \E now \in clock..MaxTime :
                   /\ clock' = now
                   /\ loc' = [loc EXCEPT ![t] =
                          [publish |-> TRUE,
                           post |-> Post(0, now, now,
                                         trim_newline_suffix(b.content)),
                           html |-> NoHtml]]
                   /\ Goto(t, "add_lock")
           ELSE \E c \in clock..MaxTime : \E u \in c..MaxTime :
                   /\ clock' = u
                   /\ loc' = [loc EXCEPT ![t] =
                          [publish |-> FALSE, post |-> NoPost,
                           html |-> wrap_post_content(
                                        Post(0, c, u, b.content))]]
                   /\ Goto(t, "add_render")
    /\ UNCHANGED <<srvVars, connHolders, jobVars, dbVars, resp, cntVars>>

\* post_add: ctx.conn().await of the insert.
post_add_lock(t) ==
    /\ pc[t] = "add_lock"
    /\ conn_lock(t)
    /\ Goto(t, "add_insert")
    /\ UNCHANGED <<srvVars, jobVars, dbVars, clock, req, loc, resp, cntVars>>

\* A variant that keeps the guard of a successful insert until the handler
\* returns.
post_add_insert_HoldGuard(t) ==
    /\ pc[t] = "add_insert"
    /\ t \in connHolders
    /\ \E ok \in BOOLEAN :
        IF ok /\ nextId <= MaxId
        THEN /\ posts' = Post_insert(posts, nextId, loc[t].post.created,
                                     loc[t].post.updated, loc[t].post.content)
             /\ nextId' = nextId + 1
             /\ writes' = writes + 1
             /\ Goto(t, "add_trigger")
             /\ UNCHANGED <<resp, loc, connHolders>>
        ELSE /\ Respond(t, response(500, <<>>, "Failed to insert post", NoHtml))
             /\ conn_unlock(t)
             /\ UNCHANGED <<dbVars, writes>>
    /\ UNCHANGED <<srvVars, jobVars, clock, req, backups>>

\* post_add: Post::insert under the guard; an error is answered with a 500.
post_add_insert(t) ==
    /\ pc[t] = "add_insert"
    /\ t \in connHolders
    /\ conn_unlock(t)
    /\ \E ok \in BOOLEAN :
        IF ok /\ nextId <= MaxId
        THEN /\ posts' = Post_insert(posts, nextId, loc[t].post.created,
                                     loc[t].post.updated, loc[t].post.content)
             /\ nextId' = nextId + 1
             /\ writes' = writes + 1
             /\ Goto(t, "add_trigger")
             /\ UNCHANGED <<resp, loc>>
        ELSE /\ Respond(t, response(500, <<>>, "Failed to insert post", NoHtml))
             /\ UNCHANGED <<dbVars, writes>>
    /\ UNCHANGED <<srvVars, jobVars, clock, req, backups>>

\* post_add: trigger_github_backup is invoked.
post_add_trigger(t) ==
    /\ pc[t] = "add_trigger"
    /\ backups' = backups + 1
    /\ Goto(t, "add_redirect")
    /\ UNCHANGED <<srvVars, connHolders, jobVars, dbVars, clock, req, loc,
                   resp, writes>>

\* post_add: the trigger returned; see_other to the listing.
post_add_redirect(t) ==
    /\ pc[t] = "add_redirect"
    /\ Respond(t, see_other(<<"/?reset_forms=true">>))
    /\ UNCHANGED <<srvVars, connHolders, jobVars, dbVars, clock, req, cntVars>>

\* post_add: the page around the preview is rendered, status 200.
post_add_preview(t) ==
    /\ pc[t] = "add_render"
    /\ Respond(t, response(200, <<>>, "preview", loc[t].html))
    /\ UNCHANGED <<srvVars, connHolders, jobVars, dbVars, clock, req, cntVars>>

\* ------------------------------------------------------------ post_edit
\* A variant that lets every request through to the body.
post_edit_start_NoGate(t) ==
    /\ Accepts(t)
    /\ \E jar \in Jars : \E id \in Ids :
        /\ req' = [req EXCEPT ![t] = Request("post_edit", id, jar)]
        /\ Goto(t, "edit_body")
    /\ UNCHANGED <<srvVars, connHolders, jobVars, dbVars, clock, loc, resp,
                   cntVars>>

\* post_edit: the session check, before the body is read.
post_edit_start(t) ==
    /\ Accepts(t)
    /\ \E jar \in Jars : \E id \in Ids :
        LET auth == is_logged_in(args, jar) IN
        /\ req' = [req EXCEPT ![t] = Request("post_edit", id, jar)]
        /\ Goto(t, IF auth THEN "edit_body" ELSE "not_found")
    /\ UNCHANGED <<srvVars, connHolders, jobVars, dbVars, clock, loc, resp,
                   cntVars>>

\* post_edit: publish is the presence of "publish=Publish" in the raw body.
post_edit_is_publish(marker) == marker

\* post_edit: the body is collected and decoded (each unwrap panics on a
\* failure).
post_edit_body(t) ==
    /\ pc[t] = "edit_body"
    /\ \E b \in Bodies :
        /\ req' = [req EXCEPT ![t].bodyRead = TRUE, ![t].marker = b.marker,
                              ![t].content = b.content]
        /\ IF ~b.ok
           THEN Panic(t)
           ELSE /\ loc' = [loc EXCEPT ![t] =
                       [publish |-> post_edit_is_publish(b.marker),
                        post |-> Post(req[t].id, 0, 0, b.content),
                        html |-> NoHtml]]
                /\ Goto(t, "edit_get_lock")
    /\ UNCHANGED <<srvVars, connHolders, jobVars, dbVars, clock, resp, cntVars>>

\* post_edit: ctx.conn().await of Post::get.
post_edit_get_lock(t) ==
    /\ pc[t] = "edit_get_lock"
    /\ conn_lock(t)
    /\ Goto(t, "edit_get")
    /\ UNCHANGED <<srvVars, jobVars, dbVars, clock, req, loc, resp, cntVars>>

\* A variant that stamps created with the current time in every case.
post_edit_created_Now(found, stored, now) == now

\* post_edit: created is the stored row's, or now when Post::get fails.
post_edit_created(found, stored, now) == IF found THEN stored ELSE now

\* A variant that binds the guard to a local that lives on after Post::get.
post_edit_get_HoldGuard(t) ==
    /\ pc[t] = "edit_get"
    /\ t \in connHolders
    /\ \E c \in clock..MaxTime : \E u \in c..MaxTime :
        LET id == req[t].id
            found == Post_has(posts, id)
            created == post_edit_created(
                           found, IF found THEN posts[id].created ELSE 0, c)
            post == Post(id, created, u,
                         trim_newline_suffix(loc[t].post.content))
        IN  /\ clock' = u
            /\ loc' = [loc EXCEPT ![t].post =
                                      IF loc[t].publish THEN post ELSE NoPost,
                                  ![t].html =
                                      IF loc[t].publish THEN NoHtml
                                      ELSE wrap_post_content(post)]
    /\ Goto(t, IF loc[t].publish THEN "edit_update_lock" ELSE "edit_render")
    /\ UNCHANGED <<srvVars, connHolders, jobVars, dbVars, req, resp, cntVars>>

\* post_edit: Post::get under the guard, then the Post is built with
\* updated = now and the normalized content; a preview renders it.
post_edit_get(t) ==
    /\ pc[t] = "edit_get"
    /\ t \in connHolders
    /\ conn_unlock(t)
    /\ \E c \in clock..MaxTime : \E u \in c..MaxTime :
        LET id == req[t].id
            found == Post_has(posts, id)
            created == post_edit_created(
                           found, IF found THEN posts[id].created ELSE 0, c)
            post == Post(id, created, u,
                         trim_newline_suffix(loc[t].post.content))
        IN  /\ clock' = u
            /\ loc' = [loc EXCEPT ![t].post =
                                      IF loc[t].publish THEN post ELSE NoPost,
                                  ![t].html =
                                      IF loc[t].publish THEN NoHtml
                                      ELSE wrap_post_content(post)]
    /\ Goto(t, IF loc[t].publish THEN "edit_update_lock" ELSE "edit_render")
    /\ UNCHANGED <<srvVars, jobVars, dbVars, req, resp, cntVars>>

\* post_edit: ctx.conn().await of the update.
post_edit_update_lock(t) ==
    /\ pc[t] = "edit_update_lock"
    /\ conn_lock(t)
    /\ Goto(t, "edit_update")
    /\ UNCHANGED <<srvVars, jobVars, dbVars, clock, req, loc, resp, cntVars>>

\* post_edit: post.update under the guard; an error is answered with a 500.
post_edit_update(t) ==
    /\ pc[t] = "edit_update"
    /\ t \in connHolders
    /\ conn_unlock(t)
    /\ \E ok \in BOOLEAN :
        IF ok
        THEN /\ posts' = Post_update(posts, loc[t].post)
             /\ writes' = writes + 1
             /\ Goto(t, "edit_trigger")
             /\ UNCHANGED <<resp, loc>>
        ELSE /\ Respond(t, response(500, <<>>, "Failed to update post", NoHtml))
             /\ UNCHANGED <<posts, writes>>
    /\ UNCHANGED <<srvVars, jobVars, nextId, clock, req, backups>>

\* post_edit: trigger_github_backup is invoked.
post_edit_trigger(t) ==
    /\ pc[t] = "edit_trigger"
    /\ backups' = backups + 1
    /\ Goto(t, "edit_redirect")
    /\ UNCHANGED <<srvVars, connHolders, jobVars, dbVars, clock, req, loc,
                   resp, writes>>

\* post_edit: the trigger returned; see_other to the post.
post_edit_redirect(t) ==
    /\ pc[t] = "edit_redirect"
    /\ Respond(t, see_other(<<"/posts/", req[t].id>>))
    /\ UNCHANGED <<srvVars, connHolders, jobVars, dbVars, clock, req, cntVars>>

\* post_edit: the page around the preview is rendered, status 200.
post_edit_preview(t) ==
    /\ pc[t] = "edit_render"
    /\ Respond(t, response(200, <<>>, "preview", loc[t].html))
    /\ UNCHANGED <<srvVars, connHolders, jobVars, dbVars, clock, req, cntVars>>

\* ------------------------------------------------------------ post_delete
\* post_delete: the session check; an anonymous request gets a 401.
post_delete_start(t) ==
    /\ Accepts(t)
    /\ \E jar \in Jars : \E id \in Ids :
        LET auth == is_logged_in(args, jar) IN
        /\ req' = [req EXCEPT ![t] = Request("post_delete", id, jar)]
        /\ IF auth
           THEN Goto(t, "del_lock") /\ UNCHANGED <<resp, loc>>
           ELSE Respond(t, response(401, <<>>, "Unauthorized", NoHtml))
    /\ UNCHANGED <<srvVars, connHolders, jobVars, dbVars, clock, cntVars>>

\* post_delete: ctx.conn().await of the delete.
post_delete_lock(t) ==
    /\ pc[t] = "del_lock"
    /\ conn_lock(t)
    /\ Goto(t, "del_call")
    /\ UNCHANGED <<srvVars, jobVars, dbVars, clock, req, loc, resp, cntVars>>

\* A variant that deletes whatever id is stored first.
post_delete_target_First(id) ==
    IF DOMAIN posts = {} THEN id ELSE CHOOSE i \in DOMAIN posts :
                                        \A k \in DOMAIN posts : i <= k

\* post_delete: the id passed to Post::delete is the one of the path.
post_delete_target(id) == id

\* post_delete: Post::delete under the guard; unwrap panics on an error.
post_delete_call(t) ==
    /\ pc[t] = "del_call"
    /\ t \in connHolders
    /\ conn_unlock(t)
    /\ \E ok \in BOOLEAN :
        IF ok
        THEN /\ posts' = Post_delete(posts, post_delete_target(req[t].id))
             /\ writes' = writes + 1
             /\ Goto(t, "del_trigger")
             /\ UNCHANGED loc
        ELSE /\ Panic(t)
             /\ UNCHANGED <<posts, writes>>
    /\ UNCHANGED <<srvVars, jobVars, nextId, clock, req, resp, backups>>

\* A variant that goes on to the redirect without the backup trigger.
post_delete_trigger_Skip(t) ==
    /\ pc[t] = "del_trigger"
    /\ Goto(t, "del_redirect")
    /\ UNCHANGED <<srvVars, connHolders, jobVars, dbVars, clock, req, loc,
                   resp, cntVars>>

\* post_delete: trigger_github_backup is invoked.
post_delete_trigger(t) ==
    /\ pc[t] = "del_trigger"
    /\ backups' = backups + 1
    /\ Goto(t, "del_redirect")
    /\ UNCHANGED <<srvVars, connHolders, jobVars, dbVars, clock, req, loc,
                   resp, writes>>

\* post_delete: the trigger returned; Redirect::to the listing.
post_delete_redirect(t) ==
    /\ pc[t] = "del_redirect"
    /\ Respond(t, Redirect_to(<<"/">>))
    /\ UNCHANGED <<srvVars, connHolders, jobVars, dbVars, clock, req, cntVars>>

\* ------------------------------------------------------------ get_delete
\* get_delete: the session check; an anonymous request gets the 404 page.
get_delete_start(t) ==
    /\ Accepts(t)
    /\ \E jar \in Jars : \E id \in Ids :
        LET auth == is_logged_in(args, jar) IN
        /\ req' = [req EXCEPT ![t] = Request("get_delete", id, jar)]
        /\ Goto(t, IF auth THEN "gdel_lock" ELSE "not_found")
    /\ UNCHANGED <<srvVars, connHolders, jobVars, dbVars, clock, loc, resp,
                   cntVars>>

\* get_delete: ctx.conn().await of Post::get.
get_delete_lock(t) ==
    /\ pc[t] = "gdel_lock"
    /\ conn_lock(t)
    /\ Goto(t, "gdel_get")
    /\ UNCHANGED <<srvVars, jobVars, dbVars, clock, req, loc, resp, cntVars>>

\* get_delete: Post::get under the guard; an error gives the 404 page,
\* a post is rendered below the confirmation form.
get_delete_get(t) ==
    /\ pc[t] = "gdel_get"
    /\ t \in connHolders
    /\ conn_unlock(t)
    /\ IF Post_has(posts, req[t].id)
       THEN /\ loc' = [loc EXCEPT ![t].html =
                                     wrap_post_content(posts[req[t].id])]
            /\ Goto(t, "gdel_render")
       ELSE /\ Goto(t, "not_found")
            /\ UNCHANGED loc
    /\ UNCHANGED <<srvVars, jobVars, dbVars, clock, req, resp, cntVars>>

\* get_delete: the confirmation page is rendered and returned.
get_delete_render(t) ==
    /\ pc[t] = "gdel_render"
    /\ Respond(t, response(200, <<>>, "delete_form", loc[t].html))
    /\ UNCHANGED <<srvVars, connHolders, jobVars, dbVars, clock, req, cntVars>>

\* ------------------------------------------------------------ get_edit
\* get_edit: is_logged_in is computed, and the handler goes on to Post::get.
get_edit_start(t) ==
    /\ Accepts(t)
    /\ \E jar \in Jars : \E id \in Ids :
        /\ req' = [req EXCEPT ![t] =
               Request("get_edit", id, jar)]
        /\ Goto(t, "gedit_lock")
    /\ UNCHANGED <<srvVars, connHolders, jobVars, dbVars, clock, loc, resp,
                   cntVars>>

\* get_edit: ctx.conn().await of Post::get.
get_edit_lock(t) ==
    /\ pc[t] = "gedit_lock"
    /\ conn_lock(t)
    /\ Goto(t, "gedit_get")
    /\ UNCHANGED <<srvVars, jobVars, dbVars, clock, req, loc, resp, cntVars>>

\* get_edit: Post::get under the guard; an error gives the 404 page,
\* a post is put into the edit form.
get_edit_get(t) ==
    /\ pc[t] = "gedit_get"
    /\ t \in connHolders
    /\ conn_unlock(t)
    /\ IF Post_has(posts, req[t].id)
       THEN /\ loc' = [loc EXCEPT ![t].html =
                                     wrap_post_content(posts[req[t].id])]
            /\ Goto(t, "gedit_render")
       ELSE /\ Goto(t, "not_found")
            /\ UNCHANGED loc
    /\ UNCHANGED <<srvVars, jobVars, dbVars, clock, req, resp, cntVars>>

\* get_edit: the edit form is rendered and returned.
get_edit_render(t) ==
    /\ pc[t] = "gedit_render"
    /\ Respond(t, response(200, <<>>, "edit_form", loc[t].html))
    /\ UNCHANGED <<srvVars, connHolders, jobVars, dbVars, clock, req, cntVars>>

\* ------------------------------------------------------------ get_posts
\* The page parameter of a listing request: absent (-1) or a usize.
Pages == {-1} \cup (0..MaxPage)

\* Pagination, line 210: pagination.page.unwrap_or(1).
current_page(page) == IF page = -1 THEN 1 ELSE page

\* A listing request: a Request with the page parameter of its query.
ListRequest(jar, page) ==
    [kind |-> "get_posts", id |-> 0, cookie |-> (jar = "session"),
     bodyRead |-> FALSE, marker |-> FALSE, content |-> <<>>, created0 |-> -1,
     page |-> page]

\* get_posts: is_logged_in and the page parameter, then the lookup of "about".
get_posts_start(t) ==
    /\ Accepts(t)
    /\ \E jar \in Jars : \E page \in Pages :
        req' = [req EXCEPT ![t] = ListRequest(jar, page)]
    /\ Goto(t, "list_about_lock")
    /\ UNCHANGED <<srvVars, connHolders, jobVars, dbVars, clock, loc, resp,
                   cntVars>>

\* get_posts: ctx.conn().await of Kv::get.
get_posts_about_lock(t) ==
    /\ pc[t] = "list_about_lock"
    /\ conn_lock(t)
    /\ Goto(t, "list_about")
    /\ UNCHANGED <<srvVars, jobVars, dbVars, clock, req, loc, resp, cntVars>>

\* get_posts: Kv::get of "about" under the guard; an error gives an empty
\* description. The handler goes on to list_posts.
get_posts_about(t) ==
    /\ pc[t] = "list_about"
    /\ t \in connHolders
    /\ conn_unlock(t)
    /\ Goto(t, "list_lock")
    /\ UNCHANGED <<srvVars, jobVars, dbVars, clock, req, loc, resp, cntVars>>

\* list_posts: ctx.conn().await of Post::list.
list_posts_lock(t) ==
    /\ pc[t] = "list_lock"
    /\ conn_lock(t)
    /\ Goto(t, "list_call")
    /\ UNCHANGED <<srvVars, jobVars, dbVars, clock, req, loc, resp, cntVars>>

\* list_posts: Post::list under the guard; an error gives (false, "Database
\* error"), otherwise the window of the page is sliced out, which may panic.
\* get_posts then builds the prev link (unless the page is 1) and the next
\* link (when has_next); prev and next are 0 when there is no such link.
list_posts(t) ==
    /\ pc[t] = "list_call"
    /\ t \in connHolders
    /\ conn_unlock(t)
    /\ \E ok \in BOOLEAN :
        LET page == current_page(req[t].page)
            w == list_posts_window(Post_list(posts), page)
            prev == IF page = 1 THEN 0 ELSE page - 1
        IN  IF ~ok
            THEN /\ loc' = [loc EXCEPT ![t].html =
                               [error |-> TRUE, posts |-> <<>>, prev |-> prev,
                                next |-> 0]]
                 /\ Goto(t, "list_render")
            ELSE IF w.panic
            THEN Panic(t)
            ELSE /\ loc' = [loc EXCEPT ![t].html =
                               [error |-> FALSE,
                                posts |-> [k \in 1..Len(w.posts) |->
                                              w.posts[k].id],
                                prev |-> prev,
                                next |-> IF w.has_next THEN page + 1 ELSE 0]]
                 /\ Goto(t, "list_render")
    /\ UNCHANGED <<srvVars, jobVars, dbVars, clock, req, resp, cntVars>>

\* get_posts: the page around the listing is rendered, status 200.
get_posts_render(t) ==
    /\ pc[t] = "list_render"
    /\ Respond(t, response(200, <<>>, "posts", loc[t].html))
    /\ UNCHANGED <<srvVars, connHolders, jobVars, dbVars, clock, req, cntVars>>

\* ------------------------------------------------------------ get_post
\* The id segment of the path: a number, or text that does not parse.
PathIds == Ids \cup {-1}

\* get_post: is_logged_in, then id.parse::<i64>(); an id that does not parse
\* gives the 404 page.
get_post_start(t) ==
    /\ Accepts(t)
    /\ \E jar \in Jars : \E id \in PathIds :
        /\ req' = [req EXCEPT ![t] = Request("get_post", id, jar)]
        /\ Goto(t, IF id = -1 THEN "not_found" ELSE "view_lock")
    /\ UNCHANGED <<srvVars, connHolders, jobVars, dbVars, clock, loc, resp,
                   cntVars>>

\* get_post: ctx.conn().await of Post::get.
get_post_lock(t) ==
    /\ pc[t] = "view_lock"
    /\ conn_lock(t)
    /\ Goto(t, "view_get")
    /\ UNCHANGED <<srvVars, jobVars, dbVars, clock, req, loc, resp, cntVars>>

\* get_post: Post::get under the guard; an error (no such row, or a failure
\* of the database) gives the 404 page.
get_post_get(t) ==
    /\ pc[t] = "view_get"
    /\ t \in connHolders
    /\ conn_unlock(t)
    /\ \E ok \in BOOLEAN :
        IF ok /\ Post_has(posts, req[t].id)
        THEN /\ loc' = [loc EXCEPT ![t].html =
                                      wrap_post_content(posts[req[t].id])]
             /\ Goto(t, "view_author_lock")
        ELSE /\ Goto(t, "not_found")
             /\ UNCHANGED loc
    /\ UNCHANGED <<srvVars, jobVars, dbVars, clock, req, resp, cntVars>>

\* get_post: ctx.conn().await of Kv::get.
get_post_author_lock(t) ==
    /\ pc[t] = "view_author_lock"
    /\ conn_lock(t)
    /\ Goto(t, "view_author")
    /\ UNCHANGED <<srvVars, jobVars, dbVars, clock, req, loc, resp, cntVars>>

\* get_post, line 384: Kv::get(..).unwrap() panics when the lookup fails.
get_post_author_failed(t) == Panic(t)

\* get_post: Kv::get of "author_name" under the guard.
get_post_author(t) ==
    /\ pc[t] = "view_author"
    /\ t \in connHolders
    /\ conn_unlock(t)
    /\ \E ok \in BOOLEAN :
        IF ok
        THEN Goto(t, "view_render") /\ UNCHANGED loc
        ELSE get_post_author_failed(t)
    /\ UNCHANGED <<srvVars, jobVars, dbVars, clock, req, resp, cntVars>>

\* get_post: the page around the post is rendered, status 200.
get_post_render(t) ==
    /\ pc[t] = "view_render"
    /\ Respond(t, response(200, <<>>, "post", loc[t].html))
    /\ UNCHANGED <<srvVars, connHolders, jobVars, dbVars, clock, req, cntVars>>

\* ------------------------------------------------------------ post_login
\* post_login: without a configured password a 500 is returned; otherwise
\* fx_auth::handle_login accepts the administrator's credentials (redirect
\* with the session cookie) or the login page is rendered again.
post_login_start(t) ==
    /\ Accepts(t)
    /\ req' = [req EXCEPT ![t] = Request("post_login", 0, "none")]
    /\ IF ~args.password
       THEN Respond(t, response(500, <<>>, "Admin password not set", NoHtml))
       ELSE \E right \in BOOLEAN :
               IF right
               THEN Respond(t, Redirect_to(<<"/">>))
               ELSE Goto(t, "login_render") /\ UNCHANGED <<resp, loc>>
    /\ UNCHANGED <<srvVars, connHolders, jobVars, dbVars, clock, cntVars>>

\* post_login: the login page with the error is rendered, status 401.
post_login_invalid(t) ==
    /\ pc[t] = "login_render"
    /\ Respond(t, response(401, <<>>, "login", NoHtml))
    /\ UNCHANGED <<srvVars, connHolders, jobVars, dbVars, clock, req, cntVars>>

\* ------------------------------------------------------------ cache reader
\* The holder of the cache guard that stands for request task t; job runs
\* hold it under their own number.
Reader(t) == 0 - t

\* The page-rendering path reads the feed cache for a request: it starts by
\* asking for the guard of ctx.blog_cache.
blog_cache_read_start(t) ==
    /\ Accepts(t)
    /\ req' = [req EXCEPT ![t] = Request("get_blogroll", 0, "none")]
    /\ Goto(t, "blog_lock")
    /\ UNCHANGED <<srvVars, connHolders, jobVars, dbVars, clock, loc, resp,
                   cntVars>>

\* ctx.blog_cache.lock().await completes when the mutex is free.
blog_cache_read_lock(t) ==
    /\ pc[t] = "blog_lock"
    /\ cacheHolders = {}
    /\ cacheHolders' = {Reader(t)}
    /\ Goto(t, "blog_read")
    /\ UNCHANGED <<srvVars, connHolders, ctxHolders, cache, lastRefresh, jobpc,
                   dbVars, clock, req, loc, resp, cntVars>>

\* The feeds are read under the guard and rendered; the guard is dropped.
blog_cache_read(t) ==
    /\ pc[t] = "blog_read"
    /\ Reader(t) \in cacheHolders
    /\ cacheHolders' = cacheHolders \ {Reader(t)}
    /\ Respond(t, response(200, <<>>, "blogroll", [feeds |-> cache]))
    /\ UNCHANGED <<srvVars, connHolders, ctxHolders, cache, lastRefresh, jobpc,
                   dbVars, clock, req, cntVars>>

\* ------------------------------------------------------------ cancellation
\* The positions at which a handler is suspended in an .await.
Suspended ==
    {"not_found", "add_body", "add_lock", "add_redirect", "add_render",
     "edit_body", "edit_get_lock", "edit_update_lock", "edit_redirect",
     "edit_render", "del_lock", "del_redirect", "gdel_lock", "gdel_render",
     "gedit_lock", "gedit_render", "login_render", "list_about_lock",
     "list_lock", "list_render", "view_lock", "view_author_lock",
     "view_render", "blog_lock"}

\* The client disconnects: the handler's future is dropped at its .await,
\* and with it its locals and every guard it holds.
Cancel(t) ==
    /\ pc[t] \in Suspended
    /\ Goto(t, "cancelled")
    /\ loc' = [loc EXCEPT ![t] = NoLoc]
    /\ connHolders' = connHolders \ {t}
    /\ UNCHANGED <<srvVars, jobVars, dbVars, clock, req, resp, cntVars>>

\* ---------------------------------------------------------------- system
\* run() and schedule_jobs(), then the job runs the scheduler fires.
SchedNext ==
    \/ schedule_jobs_new
    \/ schedule_jobs_add_oneshot
    \/ schedule_jobs_add_cron
    \/ schedule_jobs_start
    \/ run_serve
    \/ \E j \in JobRuns : job_fire(j)
    \/ \E j \in JobRuns : job_lock_cache(j)
    \/ \E j \in JobRuns : job_lock_ctx(j)
    \/ \E j \in JobRuns : job_update_begin(j)
    \/ \E j \in JobRuns : job_update_end(j)
    \/ \E t \in Tasks : blog_cache_read_start(t)
    \/ \E t \in Tasks : blog_cache_read_lock(t)
    \/ \E t \in Tasks : blog_cache_read(t)

\* The request handlers, each run by its own task.
Next ==
    \/ \E t \in Tasks : not_found(t)
    \/ \E t \in Tasks : post_add_start(t)
    \/ \E t \in Tasks : post_add_body(t)
    \/ \E t \in Tasks : post_add_lock(t)
    \/ \E t \in Tasks : post_add_insert(t)
    \/ \E t \in Tasks : post_add_trigger(t)
    \/ \E t \in Tasks : post_add_redirect(t)
    \/ \E t \in Tasks : post_add_preview(t)
    \/ \E t \in Tasks : post_edit_start(t)
    \/ \E t \in Tasks : post_edit_body(t)
    \/ \E t \in Tasks : post_edit_get_lock(t)
    \/ \E t \in Tasks : post_edit_get(t)
    \/ \E t \in Tasks : post_edit_update_lock(t)
    \/ \E t \in Tasks : post_edit_update(t)
    \/ \E t \in Tasks : post_edit_trigger(t)
    \/ \E t \in Tasks : post_edit_redirect(t)
    \/ \E t \in Tasks : post_edit_preview(t)
    \/ \E t \in Tasks : post_delete_start(t)
    \/ \E t \in Tasks : post_delete_lock(t)
    \/ \E t \in Tasks : post_delete_call(t)
    \/ \E t \in Tasks : post_delete_trigger(t)
    \/ \E t \in Tasks : post_delete_redirect(t)
    \/ \E t \in Tasks : get_delete_start(t)
    \/ \E t \in Tasks : get_delete_lock(t)
    \/ \E t \in Tasks : get_delete_get(t)
    \/ \E t \in Tasks : get_delete_render(t)
    \/ \E t \in Tasks : get_edit_start(t)
    \/ \E t \in Tasks : get_edit_lock(t)
    \/ \E t \in Tasks : get_edit_get(t)
    \/ \E t \in Tasks : get_edit_render(t)
    \/ \E t \in Tasks : get_posts_start(t)
    \/ \E t \in Tasks : get_posts_about_lock(t)
    \/ \E t \in Tasks : get_posts_about(t)
    \/ \E t \in Tasks : list_posts_lock(t)
    \/ \E t \in Tasks : list_posts(t)
    \/ \E t \in Tasks : get_posts_render(t)
    \/ \E t \in Tasks : get_post_start(t)
    \/ \E t \in Tasks : get_post_lock(t)
    \/ \E t \in Tasks : get_post_get(t)
    \/ \E t \in Tasks : get_post_author_lock(t)
    \/ \E t \in Tasks : get_post_author(t)
    \/ \E t \in Tasks : get_post_render(t)
    \/ \E t \in Tasks : post_login_start(t)
    \/ \E t \in Tasks : post_login_invalid(t)
    \/ \E t \in Tasks : Cancel(t)

\* A serving state with any number of stored posts up to MaxPosts.
ListInit ==
    /\ args \in [password : BOOLEAN, production : BOOLEAN]
    /\ mainpc = "serving"
    /\ sched = [oneshot |-> TRUE, cron |-> TRUE, started |-> TRUE]
    /\ connHolders = {}
    /\ cacheHolders = {}
    /\ ctxHolders = {}
    /\ cache = <<0, 0>>
    /\ lastRefresh = 0
    /\ jobpc = [j \in JobRuns |-> "idle"]
    /\ \E n \in 0..MaxPosts : posts = ManyStore(n) /\ nextId = n + 1
    /\ clock = 0
    /\ pc = [t \in Tasks |-> "idle"]
    /\ req = [t \in Tasks |-> NoReq]
    /\ loc = [t \in Tasks |-> NoLoc]
    /\ resp = [t \in Tasks |-> NoResp]
    /\ writes = 0
    /\ backups = 0

\* One listing request, served by the first task.
ListNext ==
    \/ get_posts_start(1)
    \/ get_posts_about_lock(1)
    \/ get_posts_about(1)
    \/ list_posts_lock(1)
    \/ list_posts(1)
    \/ get_posts_render(1)

\* The one-shot job and the first firing of the recurring job.
FirstRuns == 0..1

\* Requests served while the refresh jobs run: views, deletes and readers of
\* the feed cache, next to the one-shot job and one firing of the cron job.
AllNext ==
    \/ \E j \in FirstRuns : job_fire(j)
    \/ \E j \in FirstRuns : job_lock_cache(j)
    \/ \E j \in FirstRuns : job_lock_ctx(j)
    \/ \E j \in FirstRuns : job_update_begin(j)
    \/ \E j \in FirstRuns : job_update_end(j)
    \/ \E t \in Tasks : not_found(t)
    \/ \E t \in Tasks : get_post_start(t)
    \/ \E t \in Tasks : get_post_lock(t)
    \/ \E t \in Tasks : get_post_get(t)
    \/ \E t \in Tasks : get_post_author_lock(t)
    \/ \E t \in Tasks : get_post_author(t)
    \/ \E t \in Tasks : get_post_render(t)
    \/ \E t \in Tasks : post_delete_start(t)
    \/ \E t \in Tasks : post_delete_lock(t)
    \/ \E t \in Tasks : post_delete_call(t)
    \/ \E t \in Tasks : post_delete_trigger(t)
    \/ \E t \in Tasks : post_delete_redirect(t)
    \/ \E t \in Tasks : blog_cache_read_start(t)
    \/ \E t \in Tasks : blog_cache_read_lock(t)
    \/ \E t \in Tasks : blog_cache_read(t)
    \/ \E t \in Tasks : Cancel(t)

\* The serving phase: requests handled from the moment axum::serve runs.
Spec == ServeInit /\ [][Next]_vars

\* The process from its start: run(), schedule_jobs() and the job runs.
SpecSched == Init /\ [][SchedNext]_vars

\* The listing of a store of up to MaxPosts posts, for every page parameter.
SpecList == ListInit /\ [][ListNext]_vars

\* The tokio runtime keeps running every spawned task: a job run that was
\* fired takes each of its steps once it can, and so does a reader of the
\* cache; the one-shot job is due at once. The ticks of the recurring job
\* and the steps of run() are left to the environment.
SchedFairness ==
    /\ WF_vars(job_fire(0))
    /\ \A j \in JobRuns :
        /\ WF_vars(job_lock_cache(j))
        /\ WF_vars(job_lock_ctx(j))
        /\ WF_vars(job_update_begin(j))
        /\ WF_vars(job_update_end(j))
    /\ \A t \in Tasks :
        /\ WF_vars(blog_cache_read_lock(t))
        /\ WF_vars(blog_cache_read(t))

\* The process from its start, with the runtime's scheduling of the jobs.
SpecSchedFair == Init /\ [][SchedNext]_vars /\ SchedFairness

\* The serving phase of a server started without --production: the flag only
\* adds a response header and plays no part in what a request waits for.
MixInit == ServeInit /\ ~args.production

\* Listings served while the one-shot job and one firing of the cron job run.
MixNext ==
    \/ \E j \in FirstRuns : job_fire(j)
    \/ \E j \in FirstRuns : job_lock_cache(j)
    \/ \E j \in FirstRuns : job_lock_ctx(j)
    \/ \E j \in FirstRuns : job_update_begin(j)
    \/ \E j \in FirstRuns : job_update_end(j)
    \/ \E t \in Tasks : get_posts_start(t)
    \/ \E t \in Tasks : get_posts_about_lock(t)
    \/ \E t \in Tasks : get_posts_about(t)
    \/ \E t \in Tasks : list_posts_lock(t)
    \/ \E t \in Tasks : list_posts(t)
    \/ \E t \in Tasks : get_posts_render(t)
    \/ \E t \in Tasks : Cancel(t)

\* A step of the handler of task t past its start, in a listing.
HandlerStep(t) ==
    \/ get_posts_about_lock(t)
    \/ get_posts_about(t)
    \/ list_posts_lock(t)
    \/ list_posts(t)
    \/ get_posts_render(t)

\* The runtime polls every handler that can go on: a storage call and the
\* rendering of a page return, and the mutex hands its guard to a waiting
\* task once it is free.
HandlerFairness == \A t \in Tasks : WF_vars(HandlerStep(t))

\* The serving phase with jobs and listings under the runtime's scheduling.
SpecMixFair == MixInit /\ [][MixNext]_vars /\ SchedFairness /\ HandlerFairness

\* The serving phase with the refresh jobs running next to the requests.
SpecAll == ServeInit /\ [][AllNext]_vars

\* ---------------------------------------------------------------- claims
\* The positions at which a handler waits for the connection guard, and
\* those at which it makes its storage call under the guard.
ConnLockPcs ==
    {"add_lock", "edit_get_lock", "edit_update_lock", "del_lock", "gdel_lock",
     "gedit_lock", "list_about_lock", "list_lock", "view_lock",
     "view_author_lock"}
ConnCallPcs ==
    {"add_insert", "edit_get", "edit_update", "del_call", "gdel_get",
     "gedit_get", "list_about", "list_call", "view_get", "view_author"}
TriggerPcs == {"add_trigger", "edit_trigger", "del_trigger"}
Mutating == {"post_add", "post_edit", "post_delete"}

\* The request carries a valid session of the configured administrator.
HasSession(t) == args.password /\ req[t].cookie

\* C1: at most one task holds the connection guard at any time, and the
\* tasks making a storage call are exactly the holders; all handlers lock
\* the one mutex shared by every clone of the context.
C1_ConnExclusive ==
    /\ Cardinality(connHolders) <= 1
    /\ \A t \in Tasks : t \in connHolders <=> pc[t] \in ConnCallPcs

\* C1 witness: one task holds the guard while another waits for it.
C1_Witness ==
    \E t1 \in Tasks : \E t2 \in Tasks \ {t1} :
        t1 \in connHolders /\ pc[t2] \in ConnLockPcs

\* C2: refreshes of the feed cache never overlap (one job run holds the cache
\* guard from its acquisition to the end of the update), and whenever no
\* refresh is running the cache holds the content of the most recently
\* completed refresh.
C2_RefreshSerialized ==
    /\ Cardinality(cacheHolders) <= 1
    /\ \A j \in JobRuns :
        j \in cacheHolders <=> jobpc[j] \in {"lock_ctx", "update", "updating"}
    /\ cacheHolders = {} => cache = <<lastRefresh, lastRefresh>>

\* C2 witness: after a completed refresh, one run is in the middle of its
\* update while another waits for the cache guard.
C2_Witness ==
    \E j1 \in JobRuns : \E j2 \in JobRuns \ {j1} :
        jobpc[j1] = "updating" /\ jobpc[j2] = "lock_cache" /\ lastRefresh # 0

\* C3: no step of a request to the create or edit endpoint whose body lacks
\* the publish marker changes the stored posts.
C3_PreviewNoWrite ==
    [][\A t \in Tasks :
        (pc'[t] # pc[t] /\ req'[t].kind \in {"post_add", "post_edit"}
            /\ ~req'[t].marker)
        => (posts' = posts /\ nextId' = nextId /\ writes' = writes)]_vars

\* C3 witness: a preview of each endpoint was answered.
C3_Witness ==
    \E t1 \in Tasks : \E t2 \in Tasks :
        /\ pc[t1] = "done" /\ req[t1].kind = "post_add"
        /\ resp[t1].page = "preview" /\ ~req[t1].marker
        /\ pc[t2] = "done" /\ req[t2].kind = "post_edit"
        /\ resp[t2].page = "preview" /\ ~req[t2].marker

IsWhite(s) == \A k \in 1..Len(s) : s[k] \in White

NoOuterWhite(s) == s = <<>> \/ (s[1] \notin White /\ s[Len(s)] \notin White)

\* c is s without its leading and trailing whitespace, plus one newline.
NormalizedFrom(c, s) ==
    \E i \in 0..Len(s) : \E j \in 0..Len(s) :
        /\ i + j <= Len(s)
        /\ IsWhite(SubSeq(s, 1, i))
        /\ IsWhite(SubSeq(s, Len(s) - j + 1, Len(s)))
        /\ NoOuterWhite(SubSeq(s, i + 1, Len(s) - j))
        /\ c = SubSeq(s, i + 1, Len(s) - j) \o <<"\n">>

\* C4: a successful insert of the create endpoint adds exactly one post and
\* leaves the others as they were; the new post has created = updated and
\* the submitted content trimmed plus one newline ("# Hi\n" is stored as it
\* is, and normalizing the stored content again changes nothing).
C4_PublishCreates ==
    [][\A t \in Tasks :
        (pc[t] = "add_insert" /\ pc'[t] = "add_trigger")
        => /\ Cardinality(DOMAIN posts') = Cardinality(DOMAIN posts) + 1
           /\ \A i \in DOMAIN posts : i \in DOMAIN posts' /\ posts'[i] = posts[i]
           /\ \A n \in DOMAIN posts' \ DOMAIN posts :
                /\ n > 0
                /\ posts'[n].id = n
                /\ posts'[n].created = posts'[n].updated
                /\ NormalizedFrom(posts'[n].content, req[t].content)
                /\ trim_newline_suffix(posts'[n].content) = posts'[n].content
                /\ req[t].content = Hi => posts'[n].content = Hi]_vars

\* C4 witness: a publish of padded content was inserted.
C4_Witness ==
    \E t \in Tasks :
        /\ pc[t] = "add_trigger" /\ req[t].content = Padded /\ HasSession(t)
        /\ nextId - 1 \in DOMAIN posts
        /\ posts[nextId - 1].content = <<"a", " ", "b", "\n">>
        /\ Cardinality(DOMAIN posts) = 2

\* C5: a successful update of the edit endpoint, for a post that existed
\* when the request arrived, leaves the set of posts and every other post as
\* they were, keeps the post's created time, and sets updated to the time
\* the handler read from the clock, so created <= updated.
C5_EditPreserves ==
    [][\A t \in Tasks :
        /\ (pc[t] = "edit_get" /\ pc'[t] = "edit_update_lock")
           => loc'[t].post.updated = clock'
        /\ (pc[t] = "edit_update" /\ pc'[t] = "edit_trigger"
                /\ req[t].created0 >= 0)
           => /\ DOMAIN posts' = DOMAIN posts
              /\ \A i \in DOMAIN posts \ {req[t].id} : posts'[i] = posts[i]
              /\ req[t].id \in DOMAIN posts
                 => /\ posts'[req[t].id].created = posts[req[t].id].created
                    /\ posts'[req[t].id].created = req[t].created0
                    /\ posts'[req[t].id].updated = loc[t].post.updated
                    /\ posts'[req[t].id].created <= posts'[req[t].id].updated]_vars

\* C5 witness: an existing post was updated at a later time than its creation.
C5_Witness ==
    \E t \in Tasks :
        /\ pc[t] = "edit_trigger" /\ req[t].created0 >= 0
        /\ req[t].id \in DOMAIN posts
        /\ posts[req[t].id].created = req[t].created0
        /\ posts[req[t].id].updated > posts[req[t].id].created
        /\ Cardinality(DOMAIN posts) = 2

\* C6: the backup trigger has been invoked once for every storage write that
\* succeeded, counting the handlers that are about to invoke it; no other
\* request invokes it.
C6_BackupPerWrite ==
    backups + Cardinality({t \in Tasks : pc[t] \in TriggerPcs}) = writes

\* C6 witness: one write succeeded and triggered one backup, and another
\* mutating request ended without a write.
C6_Witness ==
    \E t1 \in Tasks : \E t2 \in Tasks :
        /\ writes = 1 /\ backups = 1
        /\ pc[t1] = "done" /\ req[t1].kind \in Mutating /\ resp[t1].status = 303
        /\ pc[t2] = "done" /\ req[t2].kind \in Mutating
        /\ resp[t2].status \in {200, 401, 404, 500}

\* C7: a successful Post::delete of the delete endpoint removes the row of
\* the requested id, if there is one, and changes no other row.
C7_DeleteExact ==
    [][\A t \in Tasks :
        (pc[t] = "del_call" /\ pc'[t] = "del_trigger")
        => /\ DOMAIN posts' = DOMAIN posts \ {req[t].id}
           /\ \A i \in DOMAIN posts' : posts'[i] = posts[i]]_vars

\* C7 witness: post 1 was deleted while post 2 is stored.
C7_Witness ==
    \E t \in Tasks :
        /\ pc[t] = "del_trigger" /\ req[t].id = 1 /\ HasSession(t)
        /\ DOMAIN posts = {2}

\* C8: a mutating POST without a valid session never reads its body, never
\* holds or waits for the connection guard, changes neither the posts nor the
\* backup count, and is answered 401 (delete) or with the 404 page (create,
\* edit); it never panics.
C8_RejectedUntouched ==
    [][\A t \in Tasks :
        (req'[t].kind \in Mutating /\ ~HasSession(t)')
        => /\ pc'[t] \in {"not_found", "done", "cancelled"}
           /\ t \notin connHolders'
           /\ ~req'[t].bodyRead
           /\ pc'[t] = "done"
              => IF req'[t].kind = "post_delete"
                 THEN resp'[t].status = 401
                 ELSE resp'[t].status = 404 /\ resp'[t].page = "not_found"
           /\ pc'[t] # pc[t]
              => /\ posts' = posts /\ nextId' = nextId
                 /\ writes' = writes /\ backups' = backups]_vars

\* C8 witness: a delete and a create or edit without session were answered.
C8_Witness ==
    \E t1 \in Tasks : \E t2 \in Tasks :
        /\ pc[t1] = "done" /\ req[t1].kind = "post_delete" /\ ~HasSession(t1)
        /\ resp[t1].status = 401
        /\ pc[t2] = "done" /\ req[t2].kind \in {"post_add", "post_edit"}
        /\ ~HasSession(t2) /\ resp[t2].status = 404

\* C9: every privileged GET (delete confirmation, edit form) without a valid
\* session is answered with the 404 page, whether or not the post exists.
C9_PrivilegedGetHidden ==
    \A t \in Tasks :
        (pc[t] = "done" /\ req[t].kind \in {"get_delete", "get_edit"}
            /\ ~HasSession(t))
        => resp[t].status = 404 /\ resp[t].page = "not_found"

\* C10: without a configured password is_logged_in is false for every jar,
\* so the posts are those the server started with, no write and no backup
\* happened, every gated handler stopped at its session check, a login
\* attempt is answered (with a 500), and no request that consults the
\* password ends in a panic.
C10_NoPasswordFailClosed ==
    ~args.password
    => /\ \A jar \in Jars : ~is_logged_in(args, jar)
       /\ <<posts, nextId>> \in InitStores
       /\ writes = 0 /\ backups = 0
       /\ mainpc = "serving"
       /\ \A t \in Tasks :
            /\ req[t].kind \in Mutating \cup {"get_delete", "post_login"}
               => pc[t] # "panicked"
            /\ req[t].kind \in Mutating \cup {"get_delete"}
               => pc[t] \in {"not_found", "done", "cancelled"}
            /\ (pc[t] = "done" /\ req[t].kind = "post_login")
               => resp[t].status = 500

\* C10 witness: without a password, a login attempt and a mutating request
\* that carries the session cookie were both answered.
C10_Witness ==
    /\ ~args.password
    /\ \E t1 \in Tasks : \E t2 \in Tasks :
        /\ pc[t1] = "done" /\ req[t1].kind = "post_login"
        /\ pc[t2] = "done" /\ req[t2].kind \in Mutating /\ req[t2].cookie

\* The listing requests that were answered from a successful Post::list.
Listed(t) ==
    /\ req[t].kind = "get_posts" /\ pc[t] = "done"
    /\ resp[t].page = "posts" /\ ~resp[t].html.error

\* The ids at positions from + 1 .. to of Post::list.
WindowIds(from, to) ==
    [k \in 1..(to - from) |-> Post_list(posts)[from + k].id]

\* C11: for every page p >= 1 and every store, the listing returns the posts
\* at positions (p-1)*10 up to min(p*10, total) of Post::list in order, at
\* most 10 of them, and the next link is rendered exactly when total > p*10.
C11_ListingWindow ==
    \A t \in Tasks :
        (req[t].kind = "get_posts" /\ current_page(req[t].page) >= 1)
        => LET p == current_page(req[t].page)
               total == Len(Post_list(posts))
           IN  /\ pc[t] # "panicked"
               /\ Listed(t)
                  => /\ Len(resp[t].html.posts) <= 10
                     /\ resp[t].html.posts =
                            WindowIds((p - 1) * 10, Min(p * 10, total))
                     /\ resp[t].html.next # 0 <=> total > p * 10
                     /\ resp[t].html.next # 0 => resp[t].html.next = p + 1

\* C12: a listing request is served whatever its page parameter is: it never
\* ends without a response, and a page whose window lies beyond the end of
\* the posts is answered with an empty listing and no next link.
C12_OutOfRangeEmpty ==
    \A t \in Tasks :
        req[t].kind = "get_posts"
        => LET p == current_page(req[t].page)
               total == Len(Post_list(posts))
           IN  /\ pc[t] # "panicked"
               /\ (Listed(t) /\ (p - 1) * 10 >= total)
                  => resp[t].html.posts = <<>> /\ resp[t].html.next = 0

\* The positions of run() inside its call of schedule_jobs.
SchedulePcs == {"new_scheduler", "add_oneshot", "add_cron", "start"}

\* C13: whatever fails in schedule_jobs (the creation of the scheduler, the
\* registration of a job, the start of the scheduler), schedule_jobs returns
\* to run(), which goes on to bind the listener; after the attempt to
\* register the one-shot job the recurring job is registered next.
C13_SchedulerFailuresTolerated ==
    [][/\ mainpc \in SchedulePcs => mainpc' \in SchedulePcs \cup {"bind"}
       /\ mainpc = "add_oneshot" => mainpc' \in {"add_oneshot", "add_cron"}
      ]_vars

\* The positions at which a handler makes its storage write.
WritePcs == {"add_insert", "edit_update", "del_call"}

\* C14: no view, create, edit or delete request ends in a panic on a failure
\* of the storage or of the decoding of its body, and a write that fails is
\* answered with a 500 without a backup trigger.
C14_FailuresAnswered ==
    [][\A t \in Tasks :
        /\ req'[t].kind \in Mutating \cup {"get_post"} => pc'[t] # "panicked"
        /\ (pc[t] \in WritePcs /\ pc'[t] # pc[t] /\ writes' = writes)
           => /\ pc'[t] = "done" /\ resp'[t].status = 500
              /\ backups' = backups]_vars

RedirectPcs == {"add_redirect", "edit_redirect", "del_redirect"}
PreviewPcs == {"add_render", "edit_render"}

\* The Location of the redirect that follows a successful write.
RedirectTarget(r) ==
    CASE r.kind = "post_add" -> <<"/?reset_forms=true">>
      [] r.kind = "post_edit" -> <<"/posts/", r.id>>
      [] r.kind = "post_delete" -> <<"/">>

\* C15: a create, edit or delete reaches its backup trigger only by a write
\* that succeeded and its redirect only from the trigger; it is then answered
\* with a 303 to the listing root (create, delete) or to /posts/{id} (edit).
\* Every other answer of these endpoints is not a 303, and a 200 is the
\* answer of a preview, which carries the rendering of the submitted content.
C15_RedirectAfterWrite ==
    [][\A t \in Tasks :
        /\ (pc'[t] \in TriggerPcs /\ pc[t] # pc'[t])
           => pc[t] \in WritePcs /\ writes' = writes + 1
        /\ (pc'[t] \in RedirectPcs /\ pc[t] # pc'[t]) => pc[t] \in TriggerPcs
        /\ (pc'[t] = "done" /\ pc[t] # "done" /\ req[t].kind \in Mutating)
           => IF pc[t] \in RedirectPcs
              THEN /\ resp'[t].status = 303
                   /\ resp'[t].location = RedirectTarget(req[t])
                   /\ resp'[t].html = NoHtml
              ELSE /\ resp'[t].status # 303
                   /\ resp'[t].status = 200
                      => /\ pc[t] \in PreviewPcs /\ ~req[t].marker
                         /\ resp'[t].page = "preview"
                         /\ \/ resp'[t].html.content = req[t].content
                            \/ NormalizedFrom(resp'[t].html.content,
                                              req[t].content)]_vars

\* C15 witness: an edit was written and answered with the redirect to its
\* post, and a preview was answered with status 200.
C15_Witness ==
    \E t1 \in Tasks : \E t2 \in Tasks :
        /\ pc[t1] = "done" /\ req[t1].kind = "post_edit" /\ req[t1].marker
        /\ resp[t1].status = 303
        /\ resp[t1].location = <<"/posts/", req[t1].id>> /\ writes = 1
        /\ pc[t2] = "done" /\ req[t2].kind = "post_add" /\ ~req[t2].marker
        /\ resp[t2].status = 200 /\ resp[t2].html.content = Padded

\* C16: every answered preview, of the create and of the edit endpoint, shows
\* a Post with id 0 whose content is the content a publish of the same
\* submission would store.
C16_PreviewFaithful ==
    \A t \in Tasks :
        (pc[t] = "done" /\ req[t].kind \in {"post_add", "post_edit"}
            /\ resp[t].page = "preview")
        => /\ resp[t].html.id = 0
           /\ resp[t].html.content = trim_newline_suffix(req[t].content)

\* C17: every response a handler returned carries the
\* Strict-Transport-Security header in production mode and does not carry it
\* otherwise.
C17_HstsOnEveryResponse ==
    \A t \in Tasks : pc[t] = "done" => resp[t].hsts = args.production

\* C18: a view request never ends without a response; it is answered with
\* the post (200) or with the 404 page, and with the 404 page when its id is
\* not a number.
C18_ViewFailsNotFound ==
    \A t \in Tasks :
        req[t].kind = "get_post"
        => /\ pc[t] # "panicked"
           /\ pc[t] = "done"
              => /\ resp[t].status \in {200, 404}
                 /\ resp[t].status = 404 => resp[t].page = "not_found"
                 /\ req[t].id = -1 => resp[t].status = 404

\* The job runs whose refresh of the cache is in progress.
Refreshing == {j \in JobRuns : jobpc[j] \in {"update", "updating"}}

\* C19: a reader of the feed cache is never kept waiting by a refresh: no
\* request waits for the cache guard while a job run holds it for its update.
C19_ReaderNeverWaits ==
    \A t \in Tasks :
        pc[t] = "blog_lock" => cacheHolders \cap Refreshing = {}

\* The tasks of the process: request tasks and job runs.
Agents == ({"task"} \X Tasks) \cup ({"job"} \X JobRuns)

\* The guard an agent waits for ("none" when it does not wait).
WaitsFor(a) ==
    IF a[1] = "task"
    THEN IF pc[a[2]] \in ConnLockPcs THEN "conn"
         ELSE IF pc[a[2]] = "blog_lock" THEN "cache" ELSE "none"
    ELSE IF jobpc[a[2]] = "lock_cache" THEN "cache"
         ELSE IF jobpc[a[2]] = "lock_ctx" THEN "ctx" ELSE "none"

\* The guards an agent holds.
Held(a) ==
    IF a[1] = "task"
    THEN {g \in {"conn"} : a[2] \in connHolders}
            \cup {g \in {"cache"} : Reader(a[2]) \in cacheHolders}
    ELSE {g \in {"cache"} : a[2] \in cacheHolders}
            \cup {g \in {"ctx"} : a[2] \in ctxHolders}

\* Every agent of S waits for a guard that an agent of S holds.
WaitCycle(S) ==
    S # {} /\ \A a \in S : \E b \in S : WaitsFor(a) \in Held(b)

\* C20: a job run waits for the cache guard holding nothing and for the
\* context lock holding the cache guard only, holds the context lock only
\* together with the cache guard, and holds nothing once it is done; a
\* handler of this file holds no guard but the connection guard and holds
\* nothing while it waits for it; no set of tasks waits in a cycle.
C20_NoLockOrderCycle ==
    /\ \A j \in JobRuns :
        /\ jobpc[j] \in {"idle", "lock_cache", "done"} => Held(<<"job", j>>) = {}
        /\ jobpc[j] = "lock_ctx" => Held(<<"job", j>>) = {"cache"}
        /\ "ctx" \in Held(<<"job", j>>) => "cache" \in Held(<<"job", j>>)
    /\ \A t \in Tasks :
        /\ req[t].kind # "get_blogroll" => Held(<<"task", t>>) \subseteq {"conn"}
        /\ WaitsFor(<<"task", t>>) # "none" => Held(<<"task", t>>) = {}
    /\ \A S \in SUBSET Agents : ~WaitCycle(S)

\* C20 witness: one handler holds the connection guard while another waits
\* for it, and one job run holds both of its guards while another waits for
\* the cache guard.
C20_Witness ==
    /\ \E t1 \in Tasks : \E t2 \in Tasks \ {t1} :
        t1 \in connHolders /\ pc[t2] \in ConnLockPcs
    /\ \E j1 \in JobRuns : \E j2 \in JobRuns \ {j1} :
        /\ j1 \in cacheHolders /\ j1 \in ctxHolders
        /\ jobpc[j2] = "lock_cache"

\* The positions at which a handler has ended.
EndedPcs == {"done", "panicked", "cancelled"}

\* C21: a handler holds the connection guard at no suspension point (the
\* wait for the guard included), not when it invokes the backup trigger and
\* not once it has returned, panicked or been cancelled; when no handler is
\* inside a storage call the guard is free.
C21_GuardScopedToCall ==
    /\ \A t \in Tasks :
        pc[t] \in Suspended \cup TriggerPcs \cup EndedPcs \cup {"idle"}
        => t \notin connHolders
    /\ (\A t \in Tasks : pc[t] \notin ConnCallPcs) => connHolders = {}

\* C21 witness: a publishing edit was cancelled after its write, while it
\* waited for the backup trigger, and another handler now holds the guard.
C21_Witness ==
    \E t1 \in Tasks : \E t2 \in Tasks \ {t1} :
        /\ pc[t1] = "cancelled" /\ req[t1].kind = "post_edit" /\ writes = 1
        /\ backups = 1 /\ req[t2].kind = "get_post" /\ t2 \in connHolders

\* C22: once the scheduler is started with the one-shot job registered, the
\* one-shot job can fire whether or not a tick of the recurring job has
\* occurred, it eventually completes the refresh (as long as the process
\* lives), and it runs once only; a firing of the recurring job goes through
\* the same routine to its end; and run() can bind the listener as soon as
\* schedule_jobs has returned, whatever the state of the startup refresh.
C22_StartupRefreshRuns ==
    /\ [](Alive /\ sched.started /\ sched.oneshot /\ jobpc[0] = "idle"
            => ENABLED job_fire(0))
    /\ (sched.started /\ sched.oneshot) ~> (jobpc[0] = "done" \/ ~Alive)
    /\ [][jobpc[0] = "done" => jobpc'[0] = "done"]_vars
    /\ \A j \in JobRuns \ {0} :
        (jobpc[j] = "lock_cache")
            ~> ((jobpc[j] = "done" /\ lastRefresh # 0) \/ ~Alive)
    /\ [](mainpc = "bind" => ENABLED run_serve)

\* C22 witness: the server is serving while the one-shot job is in the middle
\* of the startup refresh and no tick of the recurring job has occurred.
C22_Witness ==
    /\ mainpc = "serving" /\ sched.oneshot /\ sched.cron
    /\ jobpc[0] = "updating"
    /\ \A j \in JobRuns \ {0} : jobpc[j] = "idle"

WriteLockPcs == {"add_lock", "edit_update_lock", "del_lock"}

\* C23: in a create, edit or delete the handler takes the connection guard
\* and then makes its write; a write that succeeds is made under the guard,
\* which is dropped with it, before any backup trigger; the trigger is
\* invoked by a handler that holds no guard, whose write has succeeded and
\* which has not answered yet; the 303 is returned after the trigger.
C23_WriteTriggerRedirectOrder ==
    [][\A t \in Tasks :
        /\ (pc[t] \in WriteLockPcs /\ pc'[t] \in WritePcs)
           => t \notin connHolders /\ t \in connHolders'
                /\ writes' = writes /\ backups' = backups
        /\ (pc[t] \in WritePcs /\ pc'[t] \in TriggerPcs)
           => /\ t \in connHolders /\ t \notin connHolders'
              /\ writes' = writes + 1 /\ backups' = backups
              /\ pc'[t] # "done"
        /\ (pc[t] \in TriggerPcs /\ pc'[t] # pc[t])
           => /\ t \notin connHolders /\ t \notin connHolders'
              /\ writes > backups /\ backups' = backups + 1
              /\ pc'[t] \in RedirectPcs /\ resp'[t] = NoResp
        /\ backups' # backups => \E u \in Tasks : pc[u] \in TriggerPcs
        /\ (pc'[t] = "done" /\ pc[t] # "done" /\ req[t].kind \in Mutating
                /\ resp'[t].status = 303)
           => pc[t] \in RedirectPcs /\ backups >= 1 /\ t \notin connHolders
      ]_vars

\* C23 witness: a create has written, released the guard and invoked the
\* trigger, and has not answered yet, while another handler holds the guard.
C23_Witness ==
    \E t1 \in Tasks : \E t2 \in Tasks \ {t1} :
        /\ pc[t1] = "add_redirect" /\ writes = 1 /\ backups = 1
        /\ resp[t1] = NoResp /\ t2 \in connHolders

\* C24: under fair scheduling every handler that waits for the connection
\* guard eventually holds it, and every request that was accepted is
\* eventually answered, unless its client disconnects.
C24_EveryRequestAnswered ==
    \A t \in Tasks :
        /\ (pc[t] \in ConnLockPcs)
              ~> (t \in connHolders \/ pc[t] = "cancelled")
        /\ (pc[t] # "idle") ~> (pc[t] \in {"done", "cancelled"})

====
